---------------------------- MODULE Spec2Model ----------------------------
(***************************************************************************)
(* State-machine model of the account / session web application            *)
(* (src/src/main.rs, auth.rs, users.rs, utils.rs, errors.rs).              *)
(*                                                                         *)
(* The store is the two tables users and sessions.  A request is a record  *)
(* in a slot; its handler runs as a sequence of steps, one step per store  *)
(* call (each .await on the database), the synchronous code around a call  *)
(* belonging to the step of that call.                                     *)
(*                                                                         *)
(* Option<T> is modelled as a set: {} is None and {x} is Some(x).          *)
(* Strings are sequences of one-character strings.                         *)
(***************************************************************************)
EXTENDS Integers, Sequences, FiniteSets, TLC

(***************************************************************************)
(* Bounds of the model.                                                    *)
(***************************************************************************)
\* Session tokens are 0..MaxToken: the width of the u128 scaled down.
MaxToken == 2
\* The serial users.id counter stops at MaxUserId.
MaxUserId == 3
\* Calls of AuthState methods made within one request by SpecAuth's caller.
MaxCalls == 3
\* Request slots: the requests that can be in flight together.
MaxInFlight == 2

(***************************************************************************)
(* Program constants.                                                      *)
(***************************************************************************)
\* Mutant: the minimum length off by one.
MIN_PASSWORD_LEN_off_by_one == 8 - 1
MIN_PASSWORD_LEN == 8
USERNAME_LEN_END == 20
COOKIE_MAX_AGE == 9999999
TOKEN_BYTES == 16
SEE_OTHER == 303
BAD_REQUEST == 400
UNAUTHORIZED == 401
NOT_FOUND == 404
INTERNAL_SERVER_ERROR == 500
PERMISSION_USER == 0
PERMISSION_ADMIN == 1

Tokens == 0..MaxToken

None == {}
Some(x) == {x}
Unwrap(o) == CHOOSE x \in o : TRUE

(***************************************************************************)
(* Input alphabets: the form fields, path parameters and cookie values a   *)
(* client sends.                                                           *)
(***************************************************************************)
UserRoot == <<"r">>
UserAl == <<"a", "-", "1">>
UserBad == <<"A">>
UsernameInputs == {UserRoot, UserAl, UserBad}

PassOne == <<"p", "a", "s", "s", "w", "o", "r", "d">>
PassTwo == <<"h", "u", "n", "t", "e", "r", "2", "2">>
PassShort == <<"s", "e", "c", "r", "e", "t", "1">>
\* (password, confirm_password) of a signup form; password of a login form.
SignupForms ==
    {<<PassOne, PassOne>>, <<PassOne, PassTwo>>,
     <<PassShort, PassShort>>, <<PassShort, PassOne>>}
LoginPasswords == {PassOne, PassTwo}

ProfileInputs == {<<"h", "i">>}
Salts == {1}

LowerCase ==
    {"a", "b", "c", "d", "e", "f", "g", "h", "i", "j", "k", "l", "m",
     "n", "o", "p", "q", "r", "s", "t", "u", "v", "w", "x", "y", "z"}
DigitChars == {"0", "1", "2", "3", "4", "5", "6", "7", "8", "9"}

(***************************************************************************)
(* SessionToken (auth.rs 18-43).                                           *)
(***************************************************************************)
DigitValue(c) ==
    CASE c = "0" -> 0 [] c = "1" -> 1 [] c = "2" -> 2 [] c = "3" -> 3
      [] c = "4" -> 4 [] c = "5" -> 5 [] c = "6" -> 6 [] c = "7" -> 7
      [] c = "8" -> 8 [] c = "9" -> 9

DigitChar(d) ==
    CASE d = 0 -> "0" [] d = 1 -> "1" [] d = 2 -> "2" [] d = 3 -> "3"
      [] d = 4 -> "4" [] d = 5 -> "5" [] d = 6 -> "6" [] d = 7 -> "7"
      [] d = 8 -> "8" [] d = 9 -> "9"

\* u128::to_string: the decimal digits, most significant first, no sign.
RECURSIVE to_string(_)
to_string(n) ==
    IF n < 10 THEN <<DigitChar(n)>>
    ELSE to_string(n \div 10) \o <<DigitChar(n % 10)>>

\* The digit loop of u128::from_str: None on a non-digit or on overflow.
RECURSIVE ParseDigits(_, _)
ParseDigits(s, acc) ==
    IF s = <<>> THEN Some(acc)
    ELSE IF Head(s) \notin DigitChars THEN None
    ELSE LET v == acc * 10 + DigitValue(Head(s))
         IN  IF v > MaxToken THEN None ELSE ParseDigits(Tail(s), v)

\* <SessionToken as FromStr>::from_str = u128::from_str: an optional
\* leading "+", then at least one digit.
from_str(s) ==
    IF s = <<>> THEN None
    ELSE LET digits == IF Head(s) = "+" THEN Tail(s) ELSE s
         IN  IF digits = <<>> THEN None ELSE ParseDigits(digits, 0)

\* Mutant: the cookie value written with a sign.
into_cookie_value_signed(t) == <<"-">> \o to_string(t)

into_cookie_value(t) == to_string(t)

\* u128::to_le_bytes: TOKEN_BYTES bytes, least significant first.
RECURSIVE LeBytes(_, _)
LeBytes(n, k) ==
    IF k = 0 THEN <<>> ELSE <<n % 256>> \o LeBytes(n \div 256, k - 1)

into_database_value(t) == LeBytes(t, TOKEN_BYTES)

\* The values fill_bytes can leave in the 16-byte pool, read little-endian.
generate_new == Tokens

\* What a Cookie header can carry as the value of user_token.
CookieInputs ==
    {into_cookie_value(t) : t \in Tokens}
        \cup {<<"_">>, to_string(MaxToken + 1)}

(***************************************************************************)
(* Password hashing (pbkdf2): the hash string carries its salt, and a      *)
(* password verifies against it iff it reproduces the digest.              *)
(***************************************************************************)
Digest(password, salt) == <<salt, password>>
hash_password(password, salt) ==
    [salt |-> salt, digest |-> Digest(password, salt)]
\* Mutant: the password is compared with the stored string as it is.
verify_password_unhashed(password, hash) == password = hash.digest
verify_password(password, hash) == Digest(password, hash.salt) = hash.digest

(***************************************************************************)
(* signup::valid_username (auth.rs 134-139).                               *)
(***************************************************************************)
\* Mutant: the length range closed at its end.
valid_username_inclusive(username) ==
    /\ Len(username) >= 1
    /\ Len(username) <= USERNAME_LEN_END
    /\ \A i \in 1..Len(username) :
           username[i] \in LowerCase \cup DigitChars \cup {"-"}

valid_username(username) ==
    /\ Len(username) >= 1
    /\ Len(username) < USERNAME_LEN_END
    /\ \A i \in 1..Len(username) :
           username[i] \in LowerCase \cup DigitChars \cup {"-"}

(***************************************************************************)
(* PermissionLevel (users.rs 186-209).                                     *)
(***************************************************************************)
PermissionLevelFrom(i) ==
    CASE i = PERMISSION_USER -> "User"
      [] i = PERMISSION_ADMIN -> "Admin"
      [] OTHER -> "Panic"

(***************************************************************************)
(* Responses (utils.rs).  A panic in a handler ends the request with no    *)
(* response: Fault.                                                        *)
(***************************************************************************)
Response(status, location, set_cookie, error) ==
    [status |-> status, location |-> location, set_cookie |-> set_cookie,
     error |-> error, fault |-> FALSE]

login_response(session_token) ==
    Response(SEE_OTHER, <<"/", <<>>>>,
             Some([value |-> into_cookie_value(session_token),
                   max_age |-> COOKIE_MAX_AGE]),
             None)

logout_response ==
    Response(SEE_OTHER, <<"/", <<>>>>,
             Some([value |-> <<"_">>, max_age |-> 0]), None)

error_page(err) ==
    Response(INTERNAL_SERVER_ERROR, <<"", <<>>>>, None, Some(err))

RedirectTo(path, param) == Response(SEE_OTHER, <<path, param>>, None, None)

Fault ==
    [status |-> 0, location |-> <<"", <<>>>>, set_cookie |-> None,
     error |-> None, fault |-> TRUE]

(***************************************************************************)
(* ErrorInfo::error_info (errors.rs): the status each error declares.      *)
(***************************************************************************)
error_info(err) ==
    CASE err = "NotLoggedIn" -> UNAUTHORIZED
      [] err = "NotAdmin" -> UNAUTHORIZED
      [] err = "InvalidUsername" -> BAD_REQUEST
      [] err = "UsernameExists" -> BAD_REQUEST
      [] err = "PasswordsDoNotMatch" -> BAD_REQUEST
      [] err = "InvalidPassword" -> BAD_REQUEST
      [] err = "InternalError" -> INTERNAL_SERVER_ERROR
      [] err = "UserDoesNotExist" -> BAD_REQUEST
      [] err = "WrongPassword" -> UNAUTHORIZED
      [] err = "NoUser" -> NOT_FOUND

(***************************************************************************)
(* State.                                                                  *)
(***************************************************************************)
VARIABLES
    users,      \* table users: rows [id, username, password, profile, permission_level]
    sessions,   \* table sessions: rows [session_token, user_id]
    next_id,    \* the serial behind users.id
    reqs,       \* slot -> the request in it
    drawn,      \* history: tokens the random source has produced
    issued,     \* history: tokens returned to a client in a login_response
    signups     \* history: username -> signups that returned a token

vars == <<users, sessions, next_id, reqs, drawn, issued, signups>>

Slots == 1..MaxInFlight

(***************************************************************************)
(* The schema (schema.sql is not among the source files; these follow the  *)
(* spec's data model: username unique, session_token unique, user_id a     *)
(* foreign key that cascades on delete, new users are User with no         *)
(* profile).                                                               *)
(***************************************************************************)
SchemaUsernameTaken(username) == \E u \in users : u.username = username

SchemaNewUser(id, username, password) ==
    [id |-> id, username |-> username, password |-> password,
     profile |-> None, permission_level |-> PERMISSION_USER]

SchemaSessionRejected(session_token, user_id) ==
    \/ \E s \in sessions : s.session_token = session_token
    \/ ~ \E u \in users : u.id = user_id

SchemaCascade(deleted_ids) == {s \in sessions : s.user_id \notin deleted_ids}

\* fetch_optional: no row, or the first row of the result.
FetchOptional(rows) ==
    IF rows = {} THEN None ELSE Some(CHOOSE row \in rows : TRUE)

(***************************************************************************)
(* Requests.  auth is the AuthState the handler extracts, as the           *)
(* middleware attached it: None (Anonymous) or Some([token, store]), store *)
(* the cached Option<User>.  post_signup, post_login and logout_response   *)
(* extract no AuthState: their auth stays None.                            *)
(* stmts is the history of the statements the request has sent to the      *)
(* store; calls counts the AuthState method calls it has made; fresh is    *)
(* history too: whether a signup's username was free when it arrived.      *)
(***************************************************************************)
Idle ==
    [kind |-> "idle", pc |-> "idle", auth |-> None, stmts |-> <<>>,
     calls |-> 0, username |-> <<>>, password |-> <<>>,
     confirm_password |-> <<>>, profile |-> <<>>, hashed |-> None,
     user_id |-> 0, ret |-> None, flag |-> FALSE, fresh |-> FALSE,
     resp |-> None]

\* Mutant: a value that does not parse counts as the default token.
auth_or_default(cookie) ==
    IF cookie = None THEN None
    ELSE LET session_token == from_str(Unwrap(cookie))
         IN  IF session_token = None THEN Some([token |-> 0, store |-> None])
             ELSE Some([token |-> Unwrap(session_token), store |-> None])

\* auth (auth.rs 102-126): the user_token cookie's value, parsed.
auth(cookie) ==
    LET session_token == IF cookie = None THEN None ELSE from_str(Unwrap(cookie))
    IN  IF session_token = None THEN None
        ELSE Some([token |-> Unwrap(session_token), store |-> None])

NewRequest(kind, cookie) == [Idle EXCEPT !.kind = kind, !.auth = auth(cookie)]

Finished(q) == reqs[q].pc \in {"idle", "done"}

Quiet == \A q \in Slots : Finished(q)

\* A request of this kind arrives and takes slot r.  It arrives while others
\* are in flight only when its kind and theirs are among the kinds running
\* together; otherwise requests run one at a time.  The slots keep the
\* finished requests of a group that ran together until the next request
\* arrives with none in flight, which takes slot 1.
CanArrive(r, together, kind) ==
    IF Quiet THEN r = 1
    ELSE /\ reqs[r].pc = "idle"
         /\ \A q \in Slots : q < r => reqs[q].pc # "idle"
         /\ kind \in together
         /\ \A q \in Slots : ~ Finished(q) => reqs[q].kind \in together

Arrived(r, req) ==
    [q \in Slots |-> IF q = r THEN req
                     ELSE IF Quiet THEN Idle ELSE reqs[q]]

InFlightAt(pcs) == Cardinality({q \in Slots : reqs[q].pc \in pcs})

\* Bounds: a request that will draw a token or a user id starts only when
\* the model has one left for it.
TokenLeft(ideal) ==
    ideal => Cardinality(drawn)
               + InFlightAt({"insert_user", "login_select", "new_session"})
               < Cardinality(Tokens)
IdLeft == next_id + InFlightAt({"insert_user"}) <= MaxUserId

Done(req, response) == [req EXCEPT !.pc = "done", !.resp = Some(response)]
Sent(req, stmt) == [req EXCEPT !.stmts = Append(@, stmt)]

StoreUnchanged == UNCHANGED <<users, sessions, next_id>>
HistoryUnchanged == UNCHANGED <<drawn, issued, signups>>

(***************************************************************************)
(* AuthState (auth.rs 54-85).                                              *)
(***************************************************************************)
logged_in(a) == a # None

\* The join of get_user: the users rows a sessions row with this token
\* points to.
AuthQuery(session_token) ==
    {[username |-> u.username, permission_level |-> u.permission_level] :
        u \in {x \in users : \E s \in sessions :
                   s.user_id = x.id /\ s.session_token = session_token}}

\* get_user: [auth: the state afterwards, user: the Option<&User> returned,
\* queried: whether the store was asked].
get_user(a) ==
    IF a = None THEN [auth |-> None, user |-> None, queried |-> FALSE]
    ELSE LET st == Unwrap(a) IN
         IF st.store = None
         THEN LET row == FetchOptional(AuthQuery(into_database_value(st.token)))
                  store == IF row = None THEN None
                           ELSE Some([username |-> Unwrap(row).username,
                                      permission_level |->
                                        PermissionLevelFrom(Unwrap(row).permission_level)])
              IN  [auth |-> Some([st EXCEPT !.store = store]),
                   user |-> store, queried |-> TRUE]
         ELSE [auth |-> a, user |-> st.store, queried |-> FALSE]

\* Mutant: any logged-in user passes.
is_admin_any_user(user) == user # None

\* is_admin, on what get_user returned.
is_admin(user) ==
    IF user # None THEN Unwrap(user).permission_level = "Admin" ELSE FALSE

\* is_logged_in_user, on what get_user returned.
is_logged_in_user(user, username) ==
    IF user # None THEN Unwrap(user).username = username ELSE FALSE

\* The request after a call of get_user that returned res.
Called(req, res) ==
    [req EXCEPT !.auth = res.auth, !.calls = @ + 1,
                !.stmts = IF res.queried THEN Append(@, "AUTH_QUERY") ELSE @]

(***************************************************************************)
(* new_session (auth.rs 87-100): a fresh token, inserted for user_id; the  *)
(* unwrap panics when the store rejects the row.  With ideal the random    *)
(* source never repeats a value: up to the names of the values, it is the  *)
(* source that counts up.                                                  *)
(***************************************************************************)
\* History: request r returns this token to its client.
Returned(r, session_token) ==
    /\ issued' = issued \cup {session_token}
    /\ signups' = IF reqs[r].kind = "signup"
                  THEN [signups EXCEPT ![reqs[r].username] = @ + 1]
                  ELSE signups

Unrepeated(session_token) ==
    /\ session_token \notin drawn
    /\ \A t \in generate_new \ drawn : session_token <= t

\* Mutant: the result of the INSERT is dropped, not unwrapped.
new_session_unchecked(r, ideal) ==
    /\ reqs[r].pc = "new_session"
    /\ \E session_token \in generate_new :
        /\ ideal => Unrepeated(session_token)
        /\ drawn' = drawn \cup {session_token}
        /\ IF SchemaSessionRejected(into_database_value(session_token),
                                    reqs[r].user_id)
           THEN /\ reqs' = [reqs EXCEPT ![r] =
                              Done(Sent(@, "INSERT_TOKEN"),
                                   login_response(session_token))]
                /\ UNCHANGED sessions
                /\ Returned(r, session_token)
           ELSE /\ sessions' = sessions \cup
                      {[session_token |-> into_database_value(session_token),
                        user_id |-> reqs[r].user_id]}
                /\ reqs' = [reqs EXCEPT ![r] =
                              Done(Sent(@, "INSERT_TOKEN"),
                                   login_response(session_token))]
                /\ Returned(r, session_token)
    /\ UNCHANGED <<users, next_id>>

\* Mutant: the INSERT replaces the row of a token already stored.
new_session_upsert(r, ideal) ==
    /\ reqs[r].pc = "new_session"
    /\ \E session_token \in generate_new :
        /\ ideal => Unrepeated(session_token)
        /\ drawn' = drawn \cup {session_token}
        /\ IF ~ \E u \in users : u.id = reqs[r].user_id
           THEN /\ reqs' = [reqs EXCEPT ![r] =
                              Done(Sent(@, "INSERT_TOKEN"), Fault)]
                /\ UNCHANGED <<sessions, issued, signups>>
           ELSE /\ sessions' =
                      {s \in sessions : s.session_token
                                          # into_database_value(session_token)}
                      \cup
                      {[session_token |-> into_database_value(session_token),
                        user_id |-> reqs[r].user_id]}
                /\ reqs' = [reqs EXCEPT ![r] =
                              Done(Sent(@, "INSERT_TOKEN"),
                                   login_response(session_token))]
                /\ Returned(r, session_token)
    /\ UNCHANGED <<users, next_id>>

\* Mutant: a new session replaces the earlier sessions of the user.
new_session_single(r, ideal) ==
    /\ reqs[r].pc = "new_session"
    /\ \E session_token \in generate_new :
        /\ ideal => Unrepeated(session_token)
        /\ drawn' = drawn \cup {session_token}
        /\ IF SchemaSessionRejected(into_database_value(session_token),
                                    reqs[r].user_id)
           THEN /\ reqs' = [reqs EXCEPT ![r] =
                              Done(Sent(@, "INSERT_TOKEN"), Fault)]
                /\ UNCHANGED <<sessions, issued, signups>>
           ELSE /\ sessions' =
                      {s \in sessions : s.user_id # reqs[r].user_id} \cup
                      {[session_token |-> into_database_value(session_token),
                        user_id |-> reqs[r].user_id]}
                /\ reqs' = [reqs EXCEPT ![r] =
                              Done(Sent(@, "INSERT_TOKEN"),
                                   login_response(session_token))]
                /\ Returned(r, session_token)
    /\ UNCHANGED <<users, next_id>>

new_session(r, ideal) ==
    /\ reqs[r].pc = "new_session"
    /\ \E session_token \in generate_new :
        /\ ideal => Unrepeated(session_token)
        /\ drawn' = drawn \cup {session_token}
        /\ IF SchemaSessionRejected(into_database_value(session_token),
                                    reqs[r].user_id)
           THEN /\ reqs' = [reqs EXCEPT ![r] =
                              Done(Sent(@, "INSERT_TOKEN"), Fault)]
                /\ UNCHANGED <<sessions, issued, signups>>
           ELSE /\ sessions' = sessions \cup
                      {[session_token |-> into_database_value(session_token),
                        user_id |-> reqs[r].user_id]}
                /\ reqs' = [reqs EXCEPT ![r] =
                              Done(Sent(@, "INSERT_TOKEN"),
                                   login_response(session_token))]
                /\ Returned(r, session_token)
    /\ UNCHANGED <<users, next_id>>

(***************************************************************************)
(* POST /signup: post_signup (main.rs 101-122) and signup (auth.rs         *)
(* 128-174).  Everything up to the INSERT is synchronous.                  *)
(***************************************************************************)
post_signup(r, together, ideal, username, password, confirm_password, salt) ==
    /\ CanArrive(r, together, "signup")
    /\ LET req == [NewRequest("signup", None) EXCEPT
                      !.username = username, !.password = password,
                      !.confirm_password = confirm_password,
                      !.fresh = ~ SchemaUsernameTaken(username)]
       IN  IF password # confirm_password
           THEN reqs' = Arrived(r,
                           Done(req, error_page("PasswordsDoNotMatch")))
           ELSE IF Len(password) < MIN_PASSWORD_LEN
           THEN reqs' = Arrived(r,
                           Done(req, error_page("InvalidPassword")))
           ELSE IF ~ valid_username(username)
           THEN reqs' = Arrived(r,
                           Done(req, error_page("InvalidUsername")))
           ELSE /\ TokenLeft(ideal)
                /\ IdLeft
                /\ reqs' = Arrived(r,
                              [req EXCEPT !.pc = "insert_user",
                                  !.hashed = Some(hash_password(password, salt))])
    /\ StoreUnchanged
    /\ HistoryUnchanged

\* Mutant: the guard of the first arm never matches.
signup_insert_error_unmatched(kind) == "InternalError"

\* The match on the INSERT's error (auth.rs 159-171).
signup_insert_error(kind) ==
    IF kind = "UniqueViolation" THEN "UsernameExists" ELSE "InternalError"

\* Mutant: the username is looked up when the request arrives and the row
\* inserted later unchecked.
signup_insert_checked_before(r) ==
    /\ reqs[r].pc = "insert_user"
    /\ IF ~ reqs[r].fresh
       THEN /\ reqs' = [reqs EXCEPT ![r] =
                          Done(Sent(@, "INSERT_USER"),
                               error_page(signup_insert_error("UniqueViolation")))]
            /\ UNCHANGED <<users, next_id>>
       ELSE /\ users' = users \cup
                  {SchemaNewUser(next_id, reqs[r].username,
                                 Unwrap(reqs[r].hashed))}
            /\ next_id' = next_id + 1
            /\ reqs' = [reqs EXCEPT ![r] =
                          [Sent(@, "INSERT_USER") EXCEPT
                              !.pc = "new_session", !.user_id = next_id]]
    /\ UNCHANGED sessions
    /\ HistoryUnchanged

signup_insert(r) ==
    /\ reqs[r].pc = "insert_user"
    /\ IF SchemaUsernameTaken(reqs[r].username)
       THEN /\ reqs' = [reqs EXCEPT ![r] =
                          Done(Sent(@, "INSERT_USER"),
                               error_page(signup_insert_error("UniqueViolation")))]
            /\ UNCHANGED <<users, next_id>>
       ELSE /\ users' = users \cup
                  {SchemaNewUser(next_id, reqs[r].username,
                                 Unwrap(reqs[r].hashed))}
            /\ next_id' = next_id + 1
            /\ reqs' = [reqs EXCEPT ![r] =
                          [Sent(@, "INSERT_USER") EXCEPT
                              !.pc = "new_session", !.user_id = next_id]]
    /\ UNCHANGED sessions
    /\ HistoryUnchanged

(***************************************************************************)
(* POST /login: post_login (main.rs 124-133) and login (auth.rs 176-204).  *)
(***************************************************************************)
LoginQuery(username) ==
    {[id |-> u.id, password |-> u.password] :
        u \in {x \in users : x.username = username}}

\* Mutant: one answer for both failures.
login_check_one_answer(row, password) ==
    IF row = None THEN "WrongPassword"
    ELSE IF ~ verify_password(password, Unwrap(row).password)
    THEN "WrongPassword"
    ELSE "Ok"

\* The checks of login on the row found (auth.rs 190-201).
login_check(row, password) ==
    IF row = None THEN "UserDoesNotExist"
    ELSE IF ~ verify_password(password, Unwrap(row).password)
    THEN "WrongPassword"
    ELSE "Ok"

post_login(r, together, ideal, username, password) ==
    /\ CanArrive(r, together, "login")
    /\ TokenLeft(ideal)
    /\ reqs' = Arrived(r,
                  [NewRequest("login", None) EXCEPT
                      !.pc = "login_select",
                      !.username = username, !.password = password])
    /\ StoreUnchanged
    /\ HistoryUnchanged

login_select(r) ==
    /\ reqs[r].pc = "login_select"
    /\ LET row == FetchOptional(LoginQuery(reqs[r].username))
           req == Sent(reqs[r], "LOGIN_QUERY")
           checked == login_check(row, reqs[r].password)
       IN  IF checked # "Ok"
           THEN reqs' = [reqs EXCEPT ![r] = Done(req, error_page(checked))]
           ELSE reqs' = [reqs EXCEPT ![r] =
                           [req EXCEPT !.pc = "new_session",
                                       !.user_id = Unwrap(row).id]]
    /\ StoreUnchanged
    /\ HistoryUnchanged

(***************************************************************************)
(* POST /logout: logout_response (utils.rs 26-33).                         *)
(***************************************************************************)
post_logout(r, together) ==
    /\ CanArrive(r, together, "logout")
    /\ reqs' = Arrived(r,
                  Done(NewRequest("logout", None), logout_response))
    /\ StoreUnchanged
    /\ HistoryUnchanged

(***************************************************************************)
(* POST /delete: post_delete (main.rs 135-143) and delete_user (auth.rs    *)
(* 206-218).                                                               *)
(***************************************************************************)
post_delete(r, together, cookie) ==
    /\ CanArrive(r, together, "delete")
    /\ LET req == NewRequest("delete", cookie)
       IN  IF ~ logged_in(req.auth)
           THEN reqs' = Arrived(r,
                           Done(req, error_page("NotLoggedIn")))
           ELSE reqs' = Arrived(r, [req EXCEPT !.pc = "delete"])
    /\ StoreUnchanged
    /\ HistoryUnchanged

\* Mutant: the DELETE takes every user that has a session.
delete_user_with_any_session(r) ==
    /\ reqs[r].pc = "delete"
    /\ LET ids == {s.user_id : s \in sessions}
       IN  /\ users' = {u \in users : u.id \notin ids}
           /\ sessions' = SchemaCascade({u.id : u \in users} \cap ids)
    /\ reqs' = [reqs EXCEPT ![r] = Done(Sent(@, "DELETE"), logout_response)]
    /\ UNCHANGED next_id
    /\ HistoryUnchanged

\* DELETE FROM users WHERE id = (SELECT user_id FROM sessions WHERE
\* session_token = $1), and the cascade to the user's sessions.
delete_user(r) ==
    /\ reqs[r].pc = "delete"
    /\ LET session_token == into_database_value(Unwrap(reqs[r].auth).token)
           ids == {s.user_id : s \in {x \in sessions :
                                        x.session_token = session_token}}
       IN  /\ users' = {u \in users : u.id \notin ids}
           /\ sessions' = SchemaCascade({u.id : u \in users} \cap ids)
    /\ reqs' = [reqs EXCEPT ![r] = Done(Sent(@, "DELETE"), logout_response)]
    /\ UNCHANGED next_id
    /\ HistoryUnchanged

(***************************************************************************)
(* GET /me: me (users.rs 100-108).  Anonymous needs no store call.         *)
(***************************************************************************)
me_response(user) ==
    IF user # None THEN RedirectTo("/user/", Unwrap(user).username)
    ELSE error_page("NotLoggedIn")

me(r, together, cookie) ==
    /\ CanArrive(r, together, "me")
    /\ LET req == NewRequest("me", cookie)
       IN  IF req.auth = None
           THEN reqs' = Arrived(r,
                           Done(Called(req, get_user(req.auth)),
                                me_response(None)))
           ELSE reqs' = Arrived(r, [req EXCEPT !.pc = "me_get_user"])
    /\ StoreUnchanged
    /\ HistoryUnchanged

me_get_user(r) ==
    /\ reqs[r].pc = "me_get_user"
    /\ LET res == get_user(reqs[r].auth)
       IN  reqs' = [reqs EXCEPT ![r] =
                      Done(Called(@, res), me_response(res.user))]
    /\ StoreUnchanged
    /\ HistoryUnchanged

(***************************************************************************)
(* POST /profile: profile (users.rs 51-72).                                *)
(***************************************************************************)
profile(r, together, cookie, text) ==
    /\ CanArrive(r, together, "profile")
    /\ LET req == [NewRequest("profile", cookie) EXCEPT !.profile = text]
       IN  IF ~ logged_in(req.auth)
           THEN reqs' = Arrived(r,
                           Done(req, error_page("NotLoggedIn")))
           ELSE reqs' = Arrived(r,
                           [req EXCEPT !.pc = "profile_get_user"])
    /\ StoreUnchanged
    /\ HistoryUnchanged

\* current_user.get_user().await.unwrap(): a panic when no user is found.
profile_get_user(r) ==
    /\ reqs[r].pc = "profile_get_user"
    /\ LET res == get_user(reqs[r].auth)
       IN  IF res.user = None
           THEN reqs' = [reqs EXCEPT ![r] = Done(Called(@, res), Fault)]
           ELSE reqs' = [reqs EXCEPT ![r] =
                           [Called(@, res) EXCEPT !.pc = "profile_update"]]
    /\ StoreUnchanged
    /\ HistoryUnchanged

\* UPDATE users SET profile = $1 WHERE username = $2, $2 the cached username.
profile_update(r) ==
    /\ reqs[r].pc = "profile_update"
    /\ LET username == Unwrap(Unwrap(reqs[r].auth).store).username
       IN  users' = {IF u.username = username
                     THEN [u EXCEPT !.profile = Some(reqs[r].profile)]
                     ELSE u : u \in users}
    /\ reqs' = [reqs EXCEPT ![r] =
                  Done(Sent(@, "UPDATE_PROFILE"), RedirectTo("/me", <<>>))]
    /\ UNCHANGED <<sessions, next_id>>
    /\ HistoryUnchanged

(***************************************************************************)
(* POST /admin/add/:username and POST /admin/remove/:username: add_admin   *)
(* and remove_admin (users.rs 133-179), the same code but for the level    *)
(* tested and the level written.                                           *)
(***************************************************************************)
\* get_user(username, database) (auth.rs 220-229).
UserQuery(username) ==
    {[username |-> u.username, profile |-> u.profile,
      permission_level |-> u.permission_level] :
        u \in {x \in users : x.username = username}}

LevelTested(kind) ==
    IF kind = "add_admin" THEN PERMISSION_USER ELSE PERMISSION_ADMIN
LevelWritten(kind) ==
    IF kind = "add_admin" THEN PERMISSION_ADMIN ELSE PERMISSION_USER

\* Arrival: is_admin() on Anonymous is false with no store call.
admin_change(r, together, kind, cookie, username) ==
    /\ CanArrive(r, together, kind)
    /\ LET req == [NewRequest(kind, cookie) EXCEPT !.username = username]
       IN  IF req.auth = None
           THEN reqs' = Arrived(r,
                           Done(Called(req, get_user(req.auth)),
                                error_page("NotAdmin")))
           ELSE reqs' = Arrived(r, [req EXCEPT !.pc = "is_admin"])
    /\ StoreUnchanged
    /\ HistoryUnchanged

admin_is_admin(r) ==
    /\ reqs[r].pc = "is_admin"
    /\ LET res == get_user(reqs[r].auth)
           req == [Called(reqs[r], res) EXCEPT !.flag = is_admin(res.user)]
       IN  IF is_admin(res.user)
           THEN reqs' = [reqs EXCEPT ![r] = [req EXCEPT !.pc = "target"]]
           ELSE reqs' = [reqs EXCEPT ![r] = Done(req, error_page("NotAdmin"))]
    /\ StoreUnchanged
    /\ HistoryUnchanged

\* Mutant: the level of the target is not tested.
admin_target_untested(r) ==
    /\ reqs[r].pc = "target"
    /\ LET user == FetchOptional(UserQuery(reqs[r].username))
           req == Sent(reqs[r], "USER_QUERY")
       IN  IF user # None
           THEN reqs' = [reqs EXCEPT ![r] = [req EXCEPT !.pc = "set_level"]]
           ELSE reqs' = [reqs EXCEPT ![r] =
                           Done(req, RedirectTo("/admin", <<>>))]
    /\ StoreUnchanged
    /\ HistoryUnchanged

admin_target(r) ==
    /\ reqs[r].pc = "target"
    /\ LET user == FetchOptional(UserQuery(reqs[r].username))
           req == Sent(reqs[r], "USER_QUERY")
       IN  IF user # None
              /\ Unwrap(user).permission_level = LevelTested(reqs[r].kind)
           THEN reqs' = [reqs EXCEPT ![r] = [req EXCEPT !.pc = "set_level"]]
           ELSE reqs' = [reqs EXCEPT ![r] =
                           Done(req, RedirectTo("/admin", <<>>))]
    /\ StoreUnchanged
    /\ HistoryUnchanged

\* UPDATE users SET permission_level = .. WHERE username = $1.
admin_set_level(r) ==
    /\ reqs[r].pc = "set_level"
    /\ users' = {IF u.username = reqs[r].username
                 THEN [u EXCEPT !.permission_level = LevelWritten(reqs[r].kind)]
                 ELSE u : u \in users}
    /\ reqs' = [reqs EXCEPT ![r] =
                  Done(Sent(@, "UPDATE_LEVEL"), RedirectTo("/admin", <<>>))]
    /\ UNCHANGED <<sessions, next_id>>
    /\ HistoryUnchanged

(***************************************************************************)
(* Any handler body, seen from AuthState: a request that calls get_user,   *)
(* is_admin and is_logged_in_user in any order, up to MaxCalls times.      *)
(***************************************************************************)
auth_calls(r, together, cookie) ==
    /\ CanArrive(r, together, "auth_calls")
    /\ reqs' = Arrived(r,
                  [NewRequest("auth_calls", cookie) EXCEPT !.pc = "calls"])
    /\ StoreUnchanged
    /\ HistoryUnchanged

call_get_user(r) ==
    /\ reqs[r].pc = "calls"
    /\ reqs[r].calls < MaxCalls
    /\ LET res == get_user(reqs[r].auth)
       IN  reqs' = [reqs EXCEPT ![r] = [Called(@, res) EXCEPT !.ret = res.user]]
    /\ StoreUnchanged
    /\ HistoryUnchanged

call_is_admin(r) ==
    /\ reqs[r].pc = "calls"
    /\ reqs[r].calls < MaxCalls
    /\ LET res == get_user(reqs[r].auth)
       IN  reqs' = [reqs EXCEPT ![r] =
                      [Called(@, res) EXCEPT !.ret = res.user,
                                             !.flag = is_admin(res.user)]]
    /\ StoreUnchanged
    /\ HistoryUnchanged

call_is_logged_in_user(r, username) ==
    /\ reqs[r].pc = "calls"
    /\ reqs[r].calls < MaxCalls
    /\ LET res == get_user(reqs[r].auth)
       IN  reqs' = [reqs EXCEPT ![r] =
                      [Called(@, res) EXCEPT
                          !.ret = res.user,
                          !.flag = is_logged_in_user(res.user, username)]]
    /\ StoreUnchanged
    /\ HistoryUnchanged

calls_return(r) ==
    /\ reqs[r].pc = "calls"
    /\ reqs' = [reqs EXCEPT ![r] = Done(@, Response(200, <<"", <<>>>>, None, None))]
    /\ StoreUnchanged
    /\ HistoryUnchanged

(***************************************************************************)
(* Initial state: the tables of a deployment with its one administrator,   *)
(* put there by hand (no handler can create the first one).  The empty     *)
(* tables schema.sql creates are reached when that account is deleted.     *)
(***************************************************************************)
RootRow ==
    [id |-> 1, username |-> UserRoot, password |-> hash_password(PassOne, 1),
     profile |-> None, permission_level |-> PERMISSION_ADMIN]

Init ==
    /\ users = {RootRow}
    /\ sessions = {}
    /\ next_id = 2
    /\ reqs = [r \in Slots |-> Idle]
    /\ drawn = {}
    /\ issued = {}
    /\ signups = [u \in UsernameInputs |-> 0]

CookieHeaders == {None} \cup {Some(c) : c \in CookieInputs}

\* The routes that create and delete accounts and sessions.
AccountArrivals(together, ideal) ==
    \E r \in Slots :
        \/ \E username \in UsernameInputs, form \in SignupForms,
              salt \in Salts :
               post_signup(r, together, ideal, username, form[1], form[2], salt)
        \/ \E username \in UsernameInputs, password \in LoginPasswords :
               post_login(r, together, ideal, username, password)
        \/ post_logout(r, together)
        \/ \E cookie \in CookieHeaders : post_delete(r, together, cookie)

AccountSteps(ideal) ==
    \E r \in Slots :
        \/ signup_insert(r)
        \/ login_select(r)
        \/ new_session(r, ideal)
        \/ delete_user(r)

\* The routes that read and update the users rows.
PageArrivals(together) ==
    \E r \in Slots :
        \/ \E cookie \in CookieHeaders : me(r, together, cookie)
        \/ \E cookie \in CookieHeaders, text \in ProfileInputs :
               profile(r, together, cookie, text)
        \/ \E cookie \in CookieHeaders, kind \in {"add_admin", "remove_admin"},
              username \in UsernameInputs :
               admin_change(r, together, kind, cookie, username)

PageSteps ==
    \E r \in Slots :
        \/ me_get_user(r)
        \/ profile_get_user(r)
        \/ profile_update(r)
        \/ admin_is_admin(r)
        \/ admin_target(r)
        \/ admin_set_level(r)

Arrivals(together, ideal) ==
    AccountArrivals(together, ideal) \/ PageArrivals(together)

Steps(ideal) == AccountSteps(ideal) \/ PageSteps

\* More values that are no token, for the callers of the AuthState methods.
MalformedCookieInputs == {<<>>, <<"-", "1">>, <<"1", "x">>}
AuthCallCookies ==
    CookieHeaders \cup {Some(c) : c \in MalformedCookieInputs}

AuthCalls(together) ==
    \E r \in Slots :
        \/ \E cookie \in AuthCallCookies : auth_calls(r, together, cookie)
        \/ call_get_user(r)
        \/ call_is_admin(r)
        \/ \E username \in UsernameInputs : call_is_logged_in_user(r, username)
        \/ calls_return(r)

\* Requests one at a time, a random source that never repeats.
Next == Arrivals({}, TRUE) \/ Steps(TRUE)
Spec == Init /\ [][Next]_vars

\* Account and session requests one at a time, any random source.
NextRng == AccountArrivals({}, FALSE) \/ AccountSteps(FALSE)
SpecRng == Init /\ [][NextRng]_vars

\* Signups interleaved with each other at every store call, everything else
\* one at a time.
NextSignups == Arrivals({"signup"}, TRUE) \/ Steps(TRUE)
SpecSignups == Init /\ [][NextSignups]_vars

\* Signups and logins one at a time, promotes and demotes interleaved with
\* each other at every store call.
AdminKinds == {"add_admin", "remove_admin"}
NextAdmins ==
    \E r \in Slots :
        \/ \E username \in UsernameInputs, form \in SignupForms,
              salt \in Salts :
               post_signup(r, AdminKinds, TRUE, username, form[1], form[2],
                           salt)
        \/ \E username \in UsernameInputs, password \in LoginPasswords :
               post_login(r, AdminKinds, TRUE, username, password)
        \/ \E cookie \in CookieHeaders, kind \in AdminKinds,
              username \in UsernameInputs :
               admin_change(r, AdminKinds, kind, cookie, username)
        \/ signup_insert(r)
        \/ login_select(r)
        \/ new_session(r, TRUE)
        \/ admin_is_admin(r)
        \/ admin_target(r)
        \/ admin_set_level(r)
SpecAdmins == Init /\ [][NextAdmins]_vars

\* The response of a finished request has been sent and the request is
\* dropped while others are still in flight: the next one takes its place.
release(r) ==
    /\ reqs[r].pc = "done"
    /\ ~ Quiet
    /\ reqs' = [reqs EXCEPT ![r] = Idle]
    /\ StoreUnchanged
    /\ HistoryUnchanged

\* Logins one at a time; signups, deletes and profile changes interleaved
\* with each other at every store call, any number of them one after the
\* other while one is in flight.
ProfileKinds == {"signup", "delete", "profile"}
NextProfiles ==
    \E r \in Slots :
        \/ \E username \in UsernameInputs, form \in SignupForms,
              salt \in Salts :
               post_signup(r, ProfileKinds, TRUE, username, form[1], form[2],
                           salt)
        \/ \E username \in UsernameInputs, password \in LoginPasswords :
               post_login(r, ProfileKinds, TRUE, username, password)
        \/ \E cookie \in CookieHeaders : post_delete(r, ProfileKinds, cookie)
        \/ \E cookie \in CookieHeaders, text \in ProfileInputs :
               profile(r, ProfileKinds, cookie, text)
        \/ signup_insert(r)
        \/ login_select(r)
        \/ new_session(r, TRUE)
        \/ delete_user(r)
        \/ profile_get_user(r)
        \/ profile_update(r)
        \/ release(r)
SpecProfiles == Init /\ [][NextProfiles]_vars

\* Requests one at a time, among them callers of the AuthState methods.
NextAuth == Next \/ AuthCalls({})
SpecAuth == Init /\ [][NextAuth]_vars

(***************************************************************************)
(* A request interrupted at an await: its task is dropped or the process   *)
(* dies, and the handler sends nothing more.  Nothing in the code runs     *)
(* then: no statement is in a transaction and no handler compensates.      *)
(***************************************************************************)
\* Mutant: the statements of a request are undone when it is interrupted.
crash_rolled_back(r) ==
    /\ ~ Finished(r)
    /\ reqs' = [reqs EXCEPT ![r] = Done(@, Fault)]
    /\ users' = IF reqs[r].pc = "new_session" /\ reqs[r].kind = "signup"
                THEN {u \in users : u.id # reqs[r].user_id}
                ELSE users
    /\ UNCHANGED <<sessions, next_id>>
    /\ HistoryUnchanged

crash(r) ==
    /\ ~ Finished(r)
    /\ reqs' = [reqs EXCEPT ![r] = Done(@, Fault)]
    /\ StoreUnchanged
    /\ HistoryUnchanged

Crashes == \E r \in Slots : crash(r)

\* Account and session requests one at a time, any of them interrupted at
\* any await.
NextCrash == AccountArrivals({}, TRUE) \/ AccountSteps(TRUE) \/ Crashes
SpecCrash == Init /\ [][NextCrash]_vars

(***************************************************************************)
(* What the claims below read off a request and its response.              *)
(***************************************************************************)
Response_(req) == Unwrap(req.resp)
IsDone(req) == req.pc = "done"
Failed(req, err) == IsDone(req) /\ Response_(req) = error_page(err)
\* The response is a login_response: the token it carries, as a set.
TokenReturned(req) ==
    IF IsDone(req) /\ Response_(req).set_cookie # None
       /\ Unwrap(Response_(req).set_cookie).max_age = COOKIE_MAX_AGE
    THEN {t \in Tokens : Response_(req) = login_response(t)}
    ELSE {}
ReturnsToken(req) == TokenReturned(req) # {}
SetsNoCookie(req) == Response_(req).set_cookie = None
\* A signup form that passes every validation.
ValidSignup(req) ==
    /\ req.kind = "signup"
    /\ req.password = req.confirm_password
    /\ Len(req.password) >= MIN_PASSWORD_LEN
    /\ valid_username(req.username)
RowsOf(username) == {u \in users : u.username = username}
\* The user a token presented in a cookie resolves to on a request.
ResolvesTo(cookie_value) == get_user(auth(Some(cookie_value))).user

(***************************************************************************)
(* C1, as claimed: for a valid username, signup succeeds exactly once over *)
(* any sequence of operations: one signup returns a token, every other     *)
(* signup with that username fails with UsernameExists.                    *)
(***************************************************************************)
C1_SignupSucceedsOnce ==
    \A r \in Slots :
        ValidSignup(reqs[r]) /\ IsDone(reqs[r]) =>
            IF ReturnsToken(reqs[r])
            THEN signups[reqs[r].username] = 1
            ELSE Failed(reqs[r], "UsernameExists")

(***************************************************************************)
(* C1, amended: a signup with a valid username and form reaches the        *)
(* INSERT; it fails with UsernameExists, changing nothing, exactly when a  *)
(* users row holds the username at that moment, and otherwise inserts one  *)
(* row for it and returns a session token bound to that row.  So a second  *)
(* signup fails while the account exists and succeeds again once the       *)
(* account has been deleted.                                               *)
(***************************************************************************)
C1_SignupSucceedsWhileNoRow ==
    [][\A r \in Slots :
         LET a == reqs[r]
             b == reqs'[r]
         IN  /\ (b # a /\ a.pc \notin {"insert_user", "new_session"}
                   /\ ValidSignup(b))
                  => b.pc = "insert_user" /\ users' = users
             /\ (b # a /\ a.pc = "insert_user")
                  => IF RowsOf(a.username) # {}
                     THEN /\ Failed(b, "UsernameExists")
                          /\ users' = users /\ sessions' = sessions
                     ELSE /\ b.pc = "new_session"
                          /\ \E row \in users' :
                               /\ row.username = a.username
                               /\ row.id = b.user_id
                               /\ users' = users \cup {row}
                               /\ row \notin users
             /\ (b # a /\ a.pc = "new_session" /\ a.kind = "signup")
                  => /\ ReturnsToken(b)
                     /\ \A t \in TokenReturned(b) :
                          [session_token |-> into_database_value(t),
                           user_id |-> a.user_id] \in sessions'
                     /\ signups'[a.username] = signups[a.username] + 1
      ]_vars

\* Witness: a second signup with the same username has returned a token.
C1_Witness == \E r \in Slots :
    /\ ValidSignup(reqs[r]) /\ ReturnsToken(reqs[r])
    /\ signups[reqs[r].username] = 2

(***************************************************************************)
(* C2, as claimed: of two signups with the same valid username that ran    *)
(* together, exactly one returns a token, the other fails with             *)
(* UsernameExists, and one users row holds the username.                   *)
(***************************************************************************)
SignupsFor(username) ==
    {r \in Slots : ValidSignup(reqs[r]) /\ reqs[r].username = username}

OneWins(group, username) ==
    /\ Cardinality({r \in group : ReturnsToken(reqs[r])}) = 1
    /\ \A r \in group :
           ~ ReturnsToken(reqs[r]) => Failed(reqs[r], "UsernameExists")
    /\ Cardinality(RowsOf(username)) = 1

C2_OneOfTwoSignupsWins ==
    \A username \in UsernameInputs :
        LET group == SignupsFor(username)
        IN  (Cardinality(group) >= 2 /\ \A r \in group : IsDone(reqs[r]))
                => OneWins(group, username)

(***************************************************************************)
(* C2, amended: of the signups with the same valid username that ran       *)
(* together, the username free when the first of them arrived, exactly one *)
(* returns a token, every other fails with UsernameExists, and one users   *)
(* row holds the username.                                                 *)
(***************************************************************************)
C2_OneOfTwoSignupsWinsFreeName ==
    \A username \in UsernameInputs :
        LET group == SignupsFor(username)
        IN  (/\ Cardinality(group) >= 2
             /\ \A r \in group : IsDone(reqs[r])
             /\ \E r \in group : reqs[r].fresh)
                => OneWins(group, username)

\* Witness: two signups for a free username ran together and have finished,
\* the one that arrived second with the token.
C2_Witness ==
    /\ ValidSignup(reqs[1]) /\ ValidSignup(reqs[2])
    /\ reqs[1].username = reqs[2].username
    /\ reqs[1].fresh /\ reqs[2].fresh
    /\ Failed(reqs[1], "UsernameExists")
    /\ ReturnsToken(reqs[2])

(***************************************************************************)
(* C3: a promote or demote request whose requester is Anonymous, or whose  *)
(* token resolves to no user, or to a user of level User, is answered with *)
(* NotAdmin and none of its steps changes the users table; is_admin is     *)
(* true only for a resolved user of level Admin.                           *)
(***************************************************************************)
ResolvedAdmin(a) ==
    /\ a # None
    /\ Unwrap(a).store # None
    /\ Unwrap(Unwrap(a).store).permission_level = "Admin"

C3_NotAdminChangesNothing ==
    [][\A r \in Slots :
         LET b == reqs'[r]
         IN  (b # reqs[r] /\ b.kind \in {"add_admin", "remove_admin"})
                => /\ b.flag => ResolvedAdmin(b.auth)
                   /\ ~ ResolvedAdmin(b.auth)
                        => /\ users' = users
                           /\ IsDone(b) => Failed(b, "NotAdmin")
                           /\ b.pc \in {"done", "is_admin"}
      ]_vars

\* Witness: a promote by a logged-in user of level User was refused.
C3_Witness == \E r \in Slots :
    /\ reqs[r].kind = "add_admin"
    /\ Failed(reqs[r], "NotAdmin")
    /\ reqs[r].auth # None
    /\ Unwrap(reqs[r].auth).store # None
    /\ Unwrap(Unwrap(reqs[r].auth).store).permission_level = "User"
    /\ \E u \in RowsOf(reqs[r].username) : u.permission_level = PERMISSION_USER

(***************************************************************************)
(* C4: a login with the username and the password of an existing user     *)
(* returns a session token, a sessions row binds that token to the user's  *)
(* id, and the token, sent back as the cookie, resolves to that username.  *)
(***************************************************************************)
C4_LoginSucceeds ==
    \A r \in Slots :
        (/\ reqs[r].kind = "login"
         /\ IsDone(reqs[r])
         /\ \E u \in RowsOf(reqs[r].username) :
                u.password = hash_password(reqs[r].password, u.password.salt))
            => /\ ReturnsToken(reqs[r])
               /\ \A t \in TokenReturned(reqs[r]) :
                    \E u \in RowsOf(reqs[r].username) :
                        [session_token |-> into_database_value(t),
                         user_id |-> u.id] \in sessions
               /\ LET user == ResolvesTo(
                                 Unwrap(Response_(reqs[r]).set_cookie).value)
                  IN  user # None /\ Unwrap(user).username = reqs[r].username

\* Witness: a login of a user that signup created has returned a token.
C4_Witness == \E r \in Slots :
    /\ reqs[r].kind = "login"
    /\ ReturnsToken(reqs[r])
    /\ reqs[r].username = UserAl
    /\ signups[UserAl] = 1

(***************************************************************************)
(* C5, as claimed: a token returned by a signup or a login differs from    *)
(* every token returned before.                                            *)
(***************************************************************************)
Returns(r, t) == ~ IsDone(reqs[r]) /\ t \in TokenReturned(reqs'[r])

C5_TokenNeverReturnedBefore ==
    [][\A r \in Slots, t \in Tokens : Returns(r, t) => t \notin issued]_vars

(***************************************************************************)
(* C5, amended: a token returned by a signup or a login differs from every *)
(* token the sessions table holds at that moment, that is from every token *)
(* returned before whose account has not been deleted since; it may equal  *)
(* a token whose sessions row is gone.                                     *)
(***************************************************************************)
StoredTokens == {s.session_token : s \in sessions}

C5_TokenNotAmongStored ==
    [][\A r \in Slots, t \in Tokens :
         Returns(r, t) => /\ into_database_value(t) \notin StoredTokens
                          /\ into_database_value(t) \in StoredTokens'
      ]_vars

\* Witness: two signups have returned the same token, the account of the
\* first deleted in between.
C5_Witness == \E r \in Slots :
    /\ reqs[r].kind = "signup"
    /\ ReturnsToken(reqs[r])
    /\ signups[reqs[r].username] = 2
    /\ Cardinality(issued) = 1

(***************************************************************************)
(* C6: every stored session token is in one sessions row, bound to one     *)
(* existing user, and no step binds a stored token to another user.        *)
(***************************************************************************)
BoundToOneUser(table, people) ==
    \A s \in table :
        /\ \A s2 \in table : s2.session_token = s.session_token => s2 = s
        /\ Cardinality({u \in people : u.id = s.user_id}) = 1

C6_TokenKeepsItsUser ==
    [][/\ BoundToOneUser(sessions', users')
       /\ \A s \in sessions, s2 \in sessions' :
            s2.session_token = s.session_token => s2.user_id = s.user_id
      ]_vars

\* Witness: the random source repeated a stored token and new_session
\* faulted, the stored binding still there.
C6_Witness == \E r \in Slots :
    /\ IsDone(reqs[r]) /\ Response_(reqs[r]).fault
    /\ reqs[r].kind = "login"
    /\ \E s \in sessions : s.user_id # reqs[r].user_id
    /\ Cardinality(sessions) = 1

(***************************************************************************)
(* C7: a failed login changes nothing: with no users row for the username  *)
(* it fails with UserDoesNotExist, with a row and a wrong password with    *)
(* WrongPassword; no step of it changes users or sessions, it sends the    *)
(* store only its SELECT, and its response sets no cookie.                 *)
(***************************************************************************)
C7_FailedLoginChangesNothing ==
    [][\A r \in Slots :
         LET a == reqs[r]
             b == reqs'[r]
         IN  /\ (b # a /\ b.kind = "login" /\ ~ ReturnsToken(b)
                   /\ ~ (IsDone(b) /\ Response_(b).fault))
                  => users' = users /\ sessions' = sessions
             /\ (b # a /\ a.pc = "login_select")
                  => IF RowsOf(a.username) = {}
                     THEN /\ Failed(b, "UserDoesNotExist")
                          /\ SetsNoCookie(b)
                          /\ b.stmts = <<"LOGIN_QUERY">>
                     ELSE IF \A u \in RowsOf(a.username) :
                                ~ verify_password(a.password, u.password)
                     THEN /\ Failed(b, "WrongPassword")
                          /\ SetsNoCookie(b)
                          /\ b.stmts = <<"LOGIN_QUERY">>
                     ELSE b.pc = "new_session"
      ]_vars

\* Witness: a login with a wrong password for an existing user has failed.
C7_Witness == \E r \in Slots :
    /\ reqs[r].kind = "login"
    /\ Failed(reqs[r], "WrongPassword")
    /\ RowsOf(reqs[r].username) # {}

Lookups(req) ==
    Cardinality({i \in 1..Len(req.stmts) : req.stmts[i] = "AUTH_QUERY"})

C9_OneLookupPerRequest ==
    \A r \in Slots :
        reqs[r].auth # None /\ reqs[r].calls >= 1 => Lookups(reqs[r]) = 1

(***************************************************************************)
(* C10, as claimed: a POST /delete whose requester has no valid session    *)
(* (no cookie, an unparsable cookie, or a token no sessions row holds) is  *)
(* answered with NotLoggedIn on arrival; no DELETE is sent and users and   *)
(* sessions are unchanged.                                                 *)
(***************************************************************************)
HasSession(a) ==
    /\ a # None
    /\ into_database_value(Unwrap(a).token) \in StoredTokens

C10_NoSessionNoDelete ==
    [][\A r \in Slots :
         LET b == reqs'[r]
         IN  (b # reqs[r] /\ b.kind = "delete" /\ ~ HasSession(b.auth))
                => /\ Failed(b, "NotLoggedIn")
                   /\ b.stmts = <<>>
                   /\ users' = users /\ sessions' = sessions
      ]_vars

(***************************************************************************)
(* C11: a POST /delete whose token resolves to a user removes that users   *)
(* row and the sessions rows of that user and nothing else; from then on   *)
(* every token that was bound to the user resolves to no user (GET /me     *)
(* with it fails with NotLoggedIn), no row holds the username (a login     *)
(* with it fails with UserDoesNotExist), and a token gone from sessions    *)
(* stays gone.                                                             *)
(***************************************************************************)
OwnersOf(session_token) ==
    {u \in users : \E s \in sessions :
        s.session_token = session_token /\ s.user_id = u.id}

SessionUser(a) ==
    IF a = None THEN {} ELSE OwnersOf(into_database_value(Unwrap(a).token))

C12_ProfileNeedsLogin ==
    [][\A r \in Slots :
         LET a == reqs[r]
             b == reqs'[r]
         IN  (b.kind = "profile" /\ b # a /\ IsDone(b))
                => /\ ~ Response_(b).fault
                   /\ sessions' = sessions
                   /\ IF SessionUser(b.auth) = {}
                      THEN Failed(b, "NotLoggedIn") /\ users' = users
                      ELSE /\ Response_(b) = RedirectTo("/me", <<>>)
                           /\ users' =
                                (users \ SessionUser(b.auth)) \cup
                                {[u EXCEPT !.profile = Some(b.profile)] :
                                    u \in SessionUser(b.auth)}
      ]_vars

(***************************************************************************)
(* C13, as claimed: an error reaches the client with the status of its     *)
(* category, the one its error_info declares: 400 for InvalidUsername,     *)
(* PasswordsDoNotMatch, InvalidPassword, UsernameExists and                *)
(* UserDoesNotExist, 401 for WrongPassword, NotLoggedIn and NotAdmin, 404  *)
(* for NoUser, and 500 for InternalError only.                             *)
(***************************************************************************)
C13_ErrorStatusByCategory ==
    \A r \in Slots :
        (IsDone(reqs[r]) /\ Response_(reqs[r]).error # None)
            => LET err == Unwrap(Response_(reqs[r]).error)
                   status == Response_(reqs[r]).status
               IN  /\ status = error_info(err)
                   /\ status = INTERNAL_SERVER_ERROR => err = "InternalError"

(***************************************************************************)
(* C14: promote and demote by an admin are idempotent.  When the target    *)
(* is unknown or already has the level the request would write (a second   *)
(* promote, a demote of a User), the request sends no UPDATE and changes   *)
(* nothing; otherwise its UPDATE changes the target's level and nothing    *)
(* else, after which the target has the level written; either way the      *)
(* admin requester is redirected to /admin.                                *)
(***************************************************************************)
C14_PromoteDemoteIdempotent ==
    [][\A r \in Slots :
         LET a == reqs[r]
             b == reqs'[r]
         IN  /\ (a.pc = "target" /\ b # a)
                  => /\ users' = users /\ sessions' = sessions
                     /\ IF \E u \in RowsOf(a.username) :
                              u.permission_level # LevelWritten(a.kind)
                        THEN b.pc = "set_level"
                        ELSE b = Done(Sent(a, "USER_QUERY"),
                                      RedirectTo("/admin", <<>>))
             /\ (a.pc = "set_level" /\ b # a)
                  => /\ b = Done(Sent(a, "UPDATE_LEVEL"),
                                 RedirectTo("/admin", <<>>))
                     /\ sessions' = sessions
                     /\ users' =
                          (users \ RowsOf(a.username)) \cup
                          {[u EXCEPT !.permission_level = LevelWritten(a.kind)] :
                              u \in RowsOf(a.username)}
             /\ (b # a /\ IsDone(b) /\ b.flag
                   /\ b.kind \in {"add_admin", "remove_admin"})
                  => Response_(b) = RedirectTo("/admin", <<>>)
      ]_vars

\* Witness: an admin has promoted a-1 a second time; the request sent its
\* two SELECTs and no UPDATE.
C14_Witness == \E r \in Slots :
    /\ reqs[r].kind = "add_admin"
    /\ IsDone(reqs[r])
    /\ reqs[r].flag
    /\ reqs[r].username = UserAl
    /\ reqs[r].stmts = <<"AUTH_QUERY", "USER_QUERY">>
    /\ \E u \in RowsOf(UserAl) : u.permission_level = PERMISSION_ADMIN

(***************************************************************************)
(* C15: a signup for username u that succeeds answers 303 with a           *)
(* user_token cookie whose decimal value parses back to the token issued,  *)
(* and that token is bound to u's account; while the account exists, no    *)
(* step removes the binding or changes the username, and GET /me with a    *)
(* cookie whose token is bound to an account redirects to /user/ and that  *)
(* account's username.                                                     *)
(***************************************************************************)
C15_SignupCookieLeadsToMe ==
    [][/\ \A r \in Slots :
            LET a == reqs[r]
                b == reqs'[r]
            IN  /\ (b.kind = "signup" /\ b # a /\ ReturnsToken(b))
                     => LET cookie == Unwrap(Response_(b).set_cookie)
                        IN  /\ Response_(b).status = SEE_OTHER
                            /\ Response_(b).location = <<"/", <<>>>>
                            /\ from_str(cookie.value) # None
                            /\ Unwrap(from_str(cookie.value))
                                 \in TokenReturned(b)
                            /\ \A s \in sessions' :
                                 s.session_token = into_database_value(
                                     Unwrap(from_str(cookie.value)))
                                   => \E u \in users' :
                                         /\ u.id = s.user_id
                                         /\ u.username = b.username
                            /\ \E s \in sessions' :
                                 s.session_token = into_database_value(
                                     Unwrap(from_str(cookie.value)))
                /\ (a.pc = "me_get_user" /\ b # a)
                     => \A u \in SessionUser(a.auth) :
                           /\ IsDone(b)
                           /\ Response_(b) = RedirectTo("/user/", u.username)
       /\ \A s \in sessions :
            (\E u \in users' : u.id = s.user_id) => s \in sessions'
       /\ \A u \in users, v \in users' : v.id = u.id => v.username = u.username
      ]_vars

\* Witness: GET /me with the cookie of a-1's signup, the only token issued
\* so far, has redirected to /user/a-1.
C15_Witness == \E r \in Slots :
    /\ reqs[r].kind = "me"
    /\ IsDone(reqs[r])
    /\ Response_(reqs[r]) = RedirectTo("/user/", UserAl)
    /\ signups[UserAl] = 1
    /\ Cardinality(issued) = 1
    /\ Unwrap(reqs[r].auth).token \in issued

(***************************************************************************)
(* C16: sessions rows are removed only by account deletion.  POST /logout  *)
(* sends the store nothing, leaves users and sessions unchanged and only   *)
(* clears the cookie; a signup or login adds its sessions row and removes  *)
(* none; the only step that removes sessions rows is the DELETE of         *)
(* POST /delete, and only rows of the user it deletes.  So a token         *)
(* presented after a logout or a later login still resolves to its user.   *)
(***************************************************************************)
C16_OnlyDeleteRemovesSessions ==
    [][/\ \A r \in Slots :
            LET a == reqs[r]
                b == reqs'[r]
            IN  /\ (b.kind = "logout" /\ b # a)
                     => /\ b = Done(NewRequest("logout", None), logout_response)
                        /\ b.stmts = <<>>
                        /\ users' = users /\ sessions' = sessions
                /\ (a.pc = "new_session" /\ b # a)
                     => /\ users' = users
                        /\ sessions \subseteq sessions'
                        /\ \A t \in Tokens :
                             OwnersOf(into_database_value(t))
                                \subseteq (OwnersOf(into_database_value(t)))'
       /\ sessions \ sessions' # {}
            => /\ \E r \in Slots : reqs[r].pc = "delete" /\ reqs'[r] # reqs[r]
               /\ \A s \in sessions \ sessions' :
                    ~ \E u \in users' : u.id = s.user_id
      ]_vars

\* Witness: GET /me with the older of two tokens of a-1, issued before its
\* later login, has redirected to /user/a-1.
C16_Witness == \E r \in Slots :
    /\ reqs[r].kind = "me"
    /\ IsDone(reqs[r])
    /\ Response_(reqs[r]) = RedirectTo("/user/", UserAl)
    /\ \E s \in sessions :
         /\ s.session_token
              # into_database_value(Unwrap(reqs[r].auth).token)
         /\ \E t \in Tokens :
              /\ s.session_token = into_database_value(t)
              /\ t > Unwrap(reqs[r].auth).token
         /\ \E u \in RowsOf(UserAl) : s.user_id = u.id

(***************************************************************************)
(* C17: a request with no user_token cookie, or with one whose value is    *)
(* not an unsigned decimal integer in the token range, gets the Anonymous  *)
(* auth state, and Anonymous stays Anonymous through every call made on    *)
(* it in the request: logged_in is false, get_user returns no user and     *)
(* sends no lookup, is_admin is false; the handlers answer it with their   *)
(* error and send the store nothing.                                       *)
(***************************************************************************)
RECURSIVE DecimalValue(_)
DecimalValue(s) ==
    IF s = <<>> THEN 0
    ELSE DecimalValue(SubSeq(s, 1, Len(s) - 1)) * 10 + DigitValue(s[Len(s)])

ValidTokenText(cookie) ==
    /\ cookie # None
    /\ Unwrap(cookie) # <<>>
    /\ \A i \in 1..Len(Unwrap(cookie)) : Unwrap(cookie)[i] \in DigitChars
    /\ DecimalValue(Unwrap(cookie)) <= MaxToken

C17_AnonymousNeverTransitions ==
    [][\A r \in Slots :
         LET a == reqs[r]
             b == reqs'[r]
         IN  /\ (b # a /\ b.pc = "calls" /\ b.calls = 0)
                  => \A cookie \in AuthCallCookies :
                        ~ ValidTokenText(cookie)
                          => /\ auth(cookie) = None
                             /\ ~ logged_in(auth(cookie))
                             /\ get_user(auth(cookie))
                                  = [auth |-> None, user |-> None,
                                     queried |-> FALSE]
                             /\ ~ is_admin(get_user(auth(cookie)).user)
             /\ (a.pc = "calls" /\ a.auth = None /\ b # a)
                  => /\ b.auth = None
                     /\ b.stmts = <<>>
                     /\ b.ret = None
                     /\ ~ b.flag
             /\ (b # a /\ b.auth = None
                   /\ b.kind \in {"me", "profile", "delete",
                                  "add_admin", "remove_admin"})
                  => /\ b.stmts = <<>>
                     /\ users' = users /\ sessions' = sessions
                     /\ IF b.kind \in {"add_admin", "remove_admin"}
                        THEN Failed(b, "NotAdmin")
                        ELSE Failed(b, "NotLoggedIn")
      ]_vars

\* Witness: two calls have been made on an Anonymous state and no lookup
\* sent.
C17_Witness == \E r \in Slots :
    /\ reqs[r].kind = "auth_calls"
    /\ reqs[r].auth = None
    /\ reqs[r].calls >= 2
    /\ reqs[r].stmts = <<>>

(***************************************************************************)
(* Signups alone, over usernames at the edges of valid_username: the       *)
(* lengths 0, 1, 19 and 20, the first and last character of each range of  *)
(* the charset and the characters next to them.                            *)
(***************************************************************************)
Name19 == [i \in 1..19 |-> IF i % 2 = 1 THEN "z" ELSE "9"]
Name20 == [i \in 1..20 |-> "a"]
Name19Upper == [i \in 1..19 |-> IF i = 19 THEN "Z" ELSE "a"]
EdgeChars == {"a", "z", "0", "9", "-", "{", "/", ":", "A", "Z", "_", " ", "."}
NameInputs ==
    {<<>>, Name19, Name20, Name19Upper, UserAl, <<"a", "B">>}
        \cup {<<c>> : c \in EdgeChars}

NextNames ==
    \E r \in Slots :
        \/ \E username \in NameInputs, form \in SignupForms, salt \in Salts :
               post_signup(r, {}, TRUE, username, form[1], form[2], salt)
        \/ signup_insert(r)
        \/ new_session(r, TRUE)
SpecNames == Init /\ [][NextNames]_vars

(***************************************************************************)
(* C18: signup, called with a username that is empty, longer than 19       *)
(* characters or has a character outside a-z, 0-9 and "-", fails with      *)
(* InvalidUsername before anything is hashed or sent to the store; called  *)
(* with any other username it passes the validation and goes on to hash    *)
(* the password and send its INSERT.                                       *)
(***************************************************************************)
NameCharset ==
    {"a", "b", "c", "d", "e", "f", "g", "h", "i", "j", "k", "l", "m", "n",
     "o", "p", "q", "r", "s", "t", "u", "v", "w", "x", "y", "z", "0", "1",
     "2", "3", "4", "5", "6", "7", "8", "9", "-"}

NameAccepted(username) ==
    /\ username # <<>>
    /\ ~ (Len(username) > 19)
    /\ \A i \in 1..Len(username) : username[i] \in NameCharset

C18_InvalidUsernamesRejected ==
    [][\A r \in Slots :
         LET a == reqs[r]
             b == reqs'[r]
         IN  (b # a /\ b.kind = "signup" /\ b.stmts = <<>>
                /\ b.password = b.confirm_password /\ Len(b.password) >= 8)
                => IF NameAccepted(b.username)
                   THEN /\ b.pc = "insert_user"
                        /\ b.hashed = Some(hash_password(b.password, 1))
                        /\ users' = users /\ sessions' = sessions
                   ELSE /\ Failed(b, "InvalidUsername")
                        /\ b.hashed = None
                        /\ users' = users /\ sessions' = sessions
      ]_vars

\* Witness: a signup with twenty letters "a" and a good password was
\* refused as InvalidUsername, and one with nineteen characters got its row.
C18_Witness == \E r \in Slots :
    /\ reqs[r].kind = "signup"
    /\ reqs[r].username = Name20
    /\ reqs[r].password = PassOne
    /\ Failed(reqs[r], "InvalidUsername")
    /\ RowsOf(Name19) # {}

(***************************************************************************)
(* C19: a signup interrupted after its users row is inserted and before    *)
(* its sessions row is leaves the store with that user and no session for  *)
(* it; no step removes a users row but the DELETE of a request holding a   *)
(* session of that user, so the row stays; and a login with the username   *)
(* and password of a users row, not interrupted itself, returns a token    *)
(* and stores its session, whether the user has a session or not.          *)
(***************************************************************************)
C19_InterruptedSignupLeavesUser ==
    [][/\ \A r \in Slots :
            LET a == reqs[r]
                b == reqs'[r]
            IN  /\ (a.kind = "signup" /\ a.pc = "new_session" /\ b # a
                      /\ IsDone(b) /\ Response_(b).fault)
                     => /\ users' = users /\ sessions' = sessions
                        /\ \E u \in users' :
                             /\ u.id = a.user_id
                             /\ u.username = a.username
                             /\ u.password = Unwrap(a.hashed)
                        /\ ~ \E s \in sessions' : s.user_id = a.user_id
                /\ (a.kind = "login" /\ a.pc = "login_select" /\ b # a
                      /\ ~ (IsDone(b) /\ Response_(b).fault))
                     => \A u \in RowsOf(a.username) :
                           u.password = hash_password(a.password,
                                                      u.password.salt)
                             => b.pc = "new_session" /\ b.user_id = u.id
                /\ (a.kind = "login" /\ a.pc = "new_session" /\ b # a
                      /\ ~ (IsDone(b) /\ Response_(b).fault))
                     => /\ ReturnsToken(b)
                        /\ \A t \in TokenReturned(b) :
                             [session_token |-> into_database_value(t),
                              user_id |-> a.user_id] \in sessions'
       /\ \A u \in users :
            (~ \E v \in users' : v.id = u.id)
              => /\ \E r \in Slots :
                      reqs[r].pc = "delete" /\ reqs'[r] # reqs[r]
                 /\ \E s \in sessions : s.user_id = u.id
      ]_vars

\* Witness: a login of a-1 has returned a token though no signup of a-1
\* ever returned one: its signup was interrupted before new_session.
C19_Witness == \E r \in Slots :
    /\ reqs[r].kind = "login"
    /\ reqs[r].username = UserAl
    /\ ReturnsToken(reqs[r])
    /\ signups[UserAl] = 0
    /\ Cardinality(sessions) = 1

(***************************************************************************)
(* C20, as claimed: with promotes and demotes interleaved at every store   *)
(* call, whenever the UPDATE of one is applied, the user its token         *)
(* resolves to has permission level Admin in the store at that moment.     *)
(***************************************************************************)
C20_UpdateOnlyByCurrentAdmin ==
    [][\A r \in Slots :
         (reqs[r].pc = "set_level" /\ reqs'[r] # reqs[r])
            => \E u \in SessionUser(reqs[r].auth) :
                  u.permission_level = PERMISSION_ADMIN
      ]_vars

(***************************************************************************)
(* C21, as claimed: a demote of the requester's own name leaves no Admin,  *)
(* and once no user has permission level Admin, no step of any request     *)
(* makes one again.                                                        *)
(***************************************************************************)
AdminRows == {u \in users : u.permission_level = PERMISSION_ADMIN}

C21_NoAdminIsPermanent ==
    [][AdminRows = {}
         => \A u \in users' : u.permission_level # PERMISSION_ADMIN
      ]_vars

\* The first half of C21: the only Admin has demoted itself and the demote
\* has been answered with the redirect to /admin.
C21_LastAdminDemoted == \E r \in Slots :
    /\ reqs[r].kind = "remove_admin"
    /\ reqs[r].username = UserRoot
    /\ IsDone(reqs[r])
    /\ Response_(reqs[r]) = RedirectTo("/admin", <<>>)
    /\ AdminRows = {}
    /\ Quiet

(***************************************************************************)
(* C22, as claimed: with signups, deletes and profile changes interleaved  *)
(* at every store call, every row that the UPDATE of a POST /profile is    *)
(* applied to is the row of the user that the request's session token is   *)
(* bound to.                                                               *)
(***************************************************************************)
C22_ProfileUpdatesOwnRowOnly ==
    [][\A r \in Slots :
         (reqs[r].pc = "profile_update" /\ reqs'[r] # reqs[r])
            => \A u \in users :
                  (\E v \in users' : v.id = u.id /\ v # u)
                     => u \in SessionUser(reqs[r].auth)
      ]_vars

=============================================================================
